---- MODULE Spec2Model ----
(***************************************************************************)
(* Model of src/src/multiboot.rs: the cursor reader (ByteReader), the tag  *)
(* scan of Multiboot::new / Multiboot::parse, and the memory-area iterator *)
(* (MemoryAreas::new, MemoryAreas::next) with the MemoryArea accessors.    *)
(*                                                                         *)
(* Memory is a byte image placed at address `start`, surrounded by ambient *)
(* memory that is either unmapped or filled with one byte value.  All      *)
(* integers read by the program are assembled from bytes the way the code  *)
(* assembles them; the images are chosen so that every value the program   *)
(* computes fits a 32-bit signed integer.                                  *)
(***************************************************************************)
EXTENDS Integers, Sequences, FiniteSets, TLC

(***************************************************************************)
(* Bounds of the model.                                                    *)
(***************************************************************************)
\* Most tags in a structure image (terminator and trailing tags included).
MaxTags == 3
\* Most entries in the memory-map tag whose entries are drawn freely.
MaxEntries == 2
\* Most records one iterator is advanced over (caps iterators whose
\* entry_count was derived from bytes that are not a memory-map tag).
MaxYield == 4
\* Bytes of ambient memory mapped after the end of the image.
Slack == 16

(***************************************************************************)
(* Machine arithmetic.                                                     *)
(***************************************************************************)
RECURSIVE AndNotFrom(_, _, _)
\* The bits of x & !m worth p = 2^i and more: bit i is set when it is set
\* in x and clear in m.
AndNotFrom(x, m, p) ==
    IF p > x THEN 0
    ELSE (IF (m \div p) % 2 = 1 THEN 0 ELSE ((x \div p) % 2) * p)
            + AndNotFrom(x, m, 2 * p)

\* x & !m on non-negative machine words, bit by bit.
AndNot(x, m) == AndNotFrom(x, m, 1)

\* The largest value of an i32, and u32 arithmetic that wraps at 2^32.
MaxI32 == 2147483647

\* (a - b) / d in u32 arithmetic when a < b, i.e. (2^32 + a - b) / d, for
\* d >= 2, computed from 2^32 = 2 * MaxI32 + 2 without leaving the 32-bit
\* signed integers.
WrappedSubDiv(a, b, d) ==
    2 * (MaxI32 \div d) + ((2 * (MaxI32 % d) + 2 + a - b) \div d)

(***************************************************************************)
(* The structure images handed to Multiboot::new (the input).              *)
(***************************************************************************)
\* Little-endian encodings of the fields of the format.
U32Bytes(v) ==
    << v % 256, (v \div 256) % 256, (v \div 65536) % 256, (v \div 16777216) % 256 >>

U64Bytes(v) == U32Bytes(v) \o << 0, 0, 0, 0 >>

RoundUp8(n) == ((n + 7) \div 8) * 8

Fill(n, b) == [i \in 1..n |-> b]

RECURSIVE Flatten(_)
Flatten(ss) == IF ss = << >> THEN << >> ELSE Head(ss) \o Flatten(Tail(ss))

\* The memory-map entries the images are built from: (base, length, type).
EntryPool ==
    << [base |-> 1048576, length |-> 4096,  type |-> 1],
       [base |-> 654336,  length |-> 1024,  type |-> 2],
       [base |-> 983040,  length |-> 65536, type |-> 3],
       [base |-> 2097152, length |-> 8192,  type |-> 0] >>

\* n consecutive entries of the pool, starting at the k-th.
EntryList(n, k) == [i \in 1..n |-> EntryPool[((k + i - 2) % Len(EntryPool)) + 1]]

\* One entry at the declared stride: the four interpreted fields, then the
\* bytes a later version of the format may add.
EntryBytes(e, esize) ==
    U64Bytes(e.base) \o U64Bytes(e.length) \o U32Bytes(e.type) \o U32Bytes(0)
        \o Fill(esize - 24, 9)

EndTag == [type |-> 0, length |-> 8, esize |-> 0, entries |-> << >>]

OtherTag(len) == [type |-> 1, length |-> len, esize |-> 0, entries |-> << >>]

MmapTag(esize, entries) ==
    [type |-> 6, length |-> 16 + esize * Len(entries), esize |-> esize,
     entries |-> entries]

\* The memory-map tag of the worked example with the fields as they are
\* stated there: length 32, entry_size 24, and the one entry (of which a
\* tag of 32 bytes holds the first 16 bytes).
StatedExampleTag ==
    [type |-> 6, length |-> 32, esize |-> 24,
     entries |-> << [base |-> 1048576, length |-> 4096, type |-> 1] >>]

\* A memory-map tag that declares an entry size of 0 over one entry.
ZeroStrideTag ==
    [type |-> 6, length |-> 40, esize |-> 0,
     entries |-> << [base |-> 1048576, length |-> 4096, type |-> 1] >>]

\* A memory-map tag whose entries do not fill it: entry_size 24, one entry,
\* and 8 bytes more (the start of a second entry), length 16 + 24 + 8.
SlackTag ==
    [type |-> 6, length |-> 48, esize |-> 24,
     entries |-> << [base |-> 1048576, length |-> 4096, type |-> 1],
                    [base |-> 654336,  length |-> 1024, type |-> 2] >>]

TagBody(tag) ==
    IF tag.type = 6
    THEN U32Bytes(tag.esize) \o U32Bytes(0)
            \o Flatten([i \in 1..Len(tag.entries) |-> EntryBytes(tag.entries[i], tag.esize)])
    ELSE Fill(tag.length - 8, 5)

\* The bytes a tag takes before its padding: the length it declares, and
\* its 8 header bytes when it declares fewer.
TagSpan(tag) == IF tag.length < 8 THEN 8 ELSE tag.length

\* A tag: type, length (header included), body, padding to 8 bytes.  The
\* tag takes the bytes its length declares: a body that is longer is cut.
TagBytes(tag) ==
    SubSeq(U32Bytes(tag.type) \o U32Bytes(tag.length) \o TagBody(tag), 1, TagSpan(tag))
        \o Fill(RoundUp8(TagSpan(tag)) - TagSpan(tag), 3)

\* Index of the first terminator of a tag list, 0 when there is none.
FirstEnd(ts) ==
    IF \E i \in 1..Len(ts) : ts[i].type = 0
    THEN CHOOSE i \in 1..Len(ts) : ts[i].type = 0 /\ \A j \in 1..(i - 1) : ts[j].type # 0
    ELSE 0

\* The tags the declared total size covers: up to and including the first
\* terminator, all of them when there is none.
Covered(ts) == IF FirstEnd(ts) = 0 THEN Len(ts) ELSE FirstEnd(ts)

RECURSIVE SumUp8(_, _)
\* Bytes taken by the first k tags of ts, each padded to 8 bytes.
SumUp8(ts, k) == IF k = 0 THEN 0 ELSE SumUp8(ts, k - 1) + RoundUp8(TagSpan(ts[k]))

DeclaredSize(ts) == 8 + SumUp8(ts, Covered(ts))

\* Header (total size, reserved), then the tags.
ImageBytes(ts) ==
    U32Bytes(DeclaredSize(ts)) \o U32Bytes(0)
        \o Flatten([i \in 1..Len(ts) |-> TagBytes(ts[i])])

(***************************************************************************)
(* State.                                                                  *)
(***************************************************************************)
VARIABLES
    tags,           \* the tag list the image was built from (input)
    image,          \* the bytes of the structure, mapped at start
    ambient,        \* memory around the image: -1 unmapped, else its byte
    overflowChecks, \* the build: TRUE panics on integer overflow, FALSE wraps
    pc,             \* "init", "scan", "ready", "fault" (page fault), "panic";
                    \* "reader" where a ByteReader is driven on its own
    start,          \* Multiboot.start
    memory_map,     \* Multiboot.memory_map, 0 is ptr::null()
    cursor,         \* the cursor of the reader of parse
    tagStarts,      \* the addresses at which parse read a tag header, in order
    scanReads,      \* the addresses parse has read
    iters,          \* the MemoryAreas the caller holds, oldest first
    iterReads,      \* the addresses memory_areas() and next() have read
    call            \* the last call made on a ByteReader of its own

vars == << tags, image, ambient, overflowChecks, pc, start, memory_map, cursor,
           tagStarts, scanReads, iters, iterReads, call >>

input == << tags, image, ambient, overflowChecks, start >>

(***************************************************************************)
(* Memory.                                                                 *)
(***************************************************************************)
ImageEnd == start + Len(image)

InImage(a) == a >= start /\ a < ImageEnd

Mapped(a) == InImage(a) \/ (ambient # -1 /\ a >= 0 /\ a < ImageEnd + Slack)

Readable(a, n) == \A x \in a..(a + n - 1) : Mapped(x)

ByteAt(a) == IF InImage(a) THEN image[a - start + 1] ELSE ambient

(***************************************************************************)
(* ByteReader.  A reader is its cursor; a read returns the value and the   *)
(* cursor after it.  A usize amount is written as the isize it is cast to. *)
(***************************************************************************)
skip(c, amount) == c + amount

\* align with the mask taken from `align` instead of `align - 1`.
align_mask_off_by_one(c, a) == AndNot(c + a - 1, a)

\* align that rounds down: the `+ align - 1` is left out.
align_rounds_down(c, a) == AndNot(c, a - 1)

\* align that adds the whole of `align` before masking: an aligned cursor
\* is moved on to the next boundary.
align_always_advances(c, a) == AndNot(c + a, a - 1)

align(c, a) == AndNot(c + a - 1, a - 1)

read_u8(c) == [value |-> ByteAt(c), cursor |-> skip(c, 1)]

\* read_u32 with the third byte shifted by 8 bits instead of 16.
read_u32_short_shift(c) ==
    [value  |-> read_u8(c).value
                    + read_u8(skip(c, 1)).value * 256
                    + read_u8(skip(c, 2)).value * 256
                    + read_u8(skip(c, 3)).value * 16777216,
     cursor |-> skip(c, 4)]

\* Four read_u8 in a row, the i-th at cursor + i, or-ed together at 8 i bits.
read_u32(c) ==
    [value  |-> read_u8(c).value
                    + read_u8(skip(c, 1)).value * 256
                    + read_u8(skip(c, 2)).value * 65536
                    + read_u8(skip(c, 3)).value * 16777216,
     cursor |-> skip(c, 4)]

RECURSIVE read_u64_rounds(_, _)
\* The rounds i..7 of the loop of read_u64 on a reader that was at c before
\* the loop: round i reads at c + i and is worth 2^(8 i).
read_u64_rounds(c, i) ==
    IF i = 8 THEN 0
    ELSE read_u8(skip(c, i)).value + 256 * read_u64_rounds(c, i + 1)

read_u64(c) == [value |-> read_u64_rounds(c, 0), cursor |-> skip(c, 8)]

(***************************************************************************)
(* Multiboot::new and the loop of Multiboot::parse.                        *)
(***************************************************************************)
\* Longest record of tag-header addresses kept (a scan that never moves on
\* keeps reading, the record stops growing).
MaxTrace == 6

Record(seq, x) == IF Len(seq) < MaxTrace THEN Append(seq, x) ELSE seq

\* Multiboot::new up to the loop of parse: the two header fields are read.
Multiboot_new ==
    /\ pc = "init"
    /\ memory_map' = 0
    /\ scanReads' = scanReads \cup (start..(start + 7))
    /\ IF Readable(start, 8)
       THEN /\ cursor' = read_u32(read_u32(start).cursor).cursor
            /\ pc' = "scan"
       ELSE /\ cursor' = start
            /\ pc' = "fault"
    /\ UNCHANGED << input, call, tagStarts, iters, iterReads >>

\* The skip amount without the 8 bytes already read taken off.
body_size_whole(size) == size

\* The skip amount with a subtraction that stops at zero.
body_size_saturating(size) == IF size < 8 THEN 0 ELSE size - 8

\* The skip amount of a tag: `size as usize - 8`.  A negative value stands
\* for the subtraction having wrapped.
body_size(size) == size - 8

\* A match without the arm that records the memory map.
is_memory_map_never(kind) == FALSE

\* The arms of the match on the tag's type.
is_memory_map(kind) == kind = 6

\* A match without the arm that stops at the end tag.
is_end_never(kind) == FALSE

\* A match whose catch-all arm stops the loop: every tag that is not the
\* memory map ends the scan.
is_end_unless_memory_map(kind) == kind # 6

is_end(kind) == kind = 0

\* The loop with a second exit: it also ends once the cursor has reached
\* the end the total-size field of the header declares.
parse_bounded ==
    /\ pc = "scan"
    /\ scanReads' = scanReads \cup (cursor..(cursor + 7))
    /\ IF ~Readable(cursor, 8)
       THEN /\ pc' = "fault"
            /\ UNCHANGED << cursor, memory_map, tagStarts >>
       ELSE \E kind \in {read_u32(cursor)} :
            \E size \in {read_u32(kind.cursor)} :
            \E amount \in {body_size(size.value)} :
                IF amount < 0 /\ overflowChecks
                THEN /\ pc' = "panic"
                     /\ cursor' = size.cursor
                     /\ tagStarts' = Record(tagStarts, cursor)
                     /\ UNCHANGED memory_map
                ELSE /\ \E skipped \in {skip(size.cursor, amount)} :
                            cursor' = align(skipped, 8)
                     /\ tagStarts' = Record(tagStarts, cursor)
                     /\ memory_map' = IF is_memory_map(kind.value) THEN cursor ELSE memory_map
                     /\ pc' = IF is_end(kind.value)
                                \/ cursor + size.value >= start + read_u32(start).value
                             THEN "ready" ELSE "scan"
    /\ UNCHANGED << input, call, iters, iterReads >>

\* One round of the loop of parse.
parse ==
    /\ pc = "scan"
    /\ scanReads' = scanReads \cup (cursor..(cursor + 7))
    /\ IF ~Readable(cursor, 8)
       THEN /\ pc' = "fault"
            /\ UNCHANGED << cursor, memory_map, tagStarts >>
       ELSE \E kind \in {read_u32(cursor)} :
            \E size \in {read_u32(kind.cursor)} :
            \E amount \in {body_size(size.value)} :
                IF amount < 0 /\ overflowChecks
                THEN /\ pc' = "panic"
                     /\ cursor' = size.cursor
                     /\ tagStarts' = Record(tagStarts, cursor)
                     /\ UNCHANGED memory_map
                ELSE /\ \E skipped \in {skip(size.cursor, amount)} :
                            cursor' = align(skipped, 8)
                     /\ tagStarts' = Record(tagStarts, cursor)
                     /\ memory_map' = IF is_memory_map(kind.value) THEN cursor ELSE memory_map
                     /\ pc' = IF is_end(kind.value) THEN "ready" ELSE "scan"
    /\ UNCHANGED << input, call, iters, iterReads >>

(***************************************************************************)
(* MemoryAreas: memory_areas() with MemoryAreas::new, and next().          *)
(***************************************************************************)
\* The size of the entries with the 16 header bytes left in.
entries_size_with_header(total_size) == total_size

\* `total_size - 16` in u32.  A negative value stands for the subtraction
\* having wrapped.
entries_size(total_size) == total_size - 16

\* MemoryAreas::new with a division that gives 0 for a divisor of 0.
MemoryAreas_new_zero_count(c) ==
    LET kind_       == read_u32(c)
        total_size  == read_u32(kind_.cursor)
        entry_size  == read_u32(total_size.cursor)
        version     == read_u32(entry_size.cursor)
        wraps       == entries_size(total_size.value) < 0
    IN  IF wraps /\ overflowChecks
        THEN [panic |-> TRUE]
        ELSE [panic         |-> FALSE,
              cursor        |-> version.cursor,
              entry_size    |-> entry_size.value,
              entry_count   |-> IF entry_size.value = 0 THEN 0
                                ELSE IF wraps
                                THEN WrappedSubDiv(total_size.value, 16, entry_size.value)
                                ELSE entries_size(total_size.value) \div entry_size.value,
              current_entry |-> 0,
              yielded       |-> << >>,
              last          |-> "new"]

\* MemoryAreas::new on a reader at c whose 16 header bytes are readable.
\* The division by an entry_size of 0 panics in every build.
MemoryAreas_new(c) ==
    LET kind_       == read_u32(c)
        total_size  == read_u32(kind_.cursor)
        entry_size  == read_u32(total_size.cursor)
        version     == read_u32(entry_size.cursor)
        wraps       == entries_size(total_size.value) < 0
    IN  IF (wraps /\ overflowChecks) \/ entry_size.value = 0
        THEN [panic |-> TRUE]
        ELSE [panic         |-> FALSE,
              cursor        |-> version.cursor,
              entry_size    |-> entry_size.value,
              entry_count   |-> IF wraps
                                THEN WrappedSubDiv(total_size.value, 16, entry_size.value)
                                ELSE entries_size(total_size.value) \div entry_size.value,
              current_entry |-> 0,
              yielded       |-> << >>,
              last          |-> "new"]

\* The iterators the caller obtains from one handle: a first and a second.
IterIds == {1, 2}

\* The reader memory_areas() hands to MemoryAreas::new.
fresh_reader == memory_map

\* Multiboot::memory_areas: a new iterator over the recorded tag address.
memory_areas ==
    /\ pc = "ready"
    /\ Len(iters) < Cardinality(IterIds)
    /\ iterReads' = iterReads \cup (fresh_reader..(fresh_reader + 15))
    /\ IF ~Readable(fresh_reader, 16)
       THEN pc' = "fault" /\ UNCHANGED iters
       ELSE LET made == MemoryAreas_new(fresh_reader)
            IN  IF made.panic
                THEN pc' = "panic" /\ UNCHANGED iters
                ELSE pc' = "ready" /\ iters' = Append(iters, [f \in DOMAIN made \ {"panic"} |-> made[f]])
    /\ UNCHANGED << input, call, start, memory_map, cursor, tagStarts, scanReads >>

\* The check with > for >=: one entry too many is read.
exhausted_late(it) == it.current_entry > it.entry_count

\* The check of next() that all entries have been read.
exhausted(it) == it.current_entry >= it.entry_count

\* The skip by the width of MemoryArea instead of the declared entry size.
next_cursor_by_width(it) == skip(it.cursor, 24)

\* The cursor of next() after it skipped over the entry.
next_cursor(it) == skip(it.cursor, it.entry_size)

\* next() on iterators that share one reader kept in the handle: the skip
\* of one iterator moves the cursor of all of them.
next_shared_reader(i) ==
    /\ pc = "ready"
    /\ i \in 1..Len(iters)
    /\ LET it == iters[i]
       IN  IF exhausted(it)
           THEN iters' = [iters EXCEPT ![i].last = "none"]
           ELSE /\ it.current_entry < MaxYield
                /\ iters' = [j \in 1..Len(iters) |->
                        IF j = i
                        THEN [it EXCEPT !.current_entry = it.current_entry + 1,
                                        !.cursor = next_cursor(it),
                                        !.yielded = Append(it.yielded, it.cursor),
                                        !.last = "some"]
                        ELSE [iters[j] EXCEPT !.cursor = next_cursor(it)]]
    /\ UNCHANGED << input, call, pc, start, memory_map, cursor, tagStarts, scanReads,
                    iterReads >>

\* next() that starts over: the call after the one that returned None
\* takes the iterator back to the first entry.
next_rewinds(i) ==
    /\ pc = "ready"
    /\ i \in 1..Len(iters)
    /\ LET it == iters[i]
       IN  IF exhausted(it)
           THEN IF it.last = "none"
                THEN iters' = [iters EXCEPT
                        ![i].current_entry = 0,
                        ![i].cursor = skip(memory_map, 16),
                        ![i].last = "new"]
                ELSE iters' = [iters EXCEPT ![i].last = "none"]
           ELSE /\ it.current_entry < MaxYield
                /\ iters' = [iters EXCEPT
                        ![i].current_entry = it.current_entry + 1,
                        ![i].cursor = next_cursor(it),
                        ![i].yielded = Append(it.yielded, it.cursor),
                        ![i].last = "some"]
    /\ UNCHANGED << input, call, pc, start, memory_map, cursor, tagStarts, scanReads,
                    iterReads >>

\* MemoryAreas::next on the i-th iterator; `yielded` and `last` record what
\* the calls returned (the addresses of the views, and Some or None).
next(i) ==
    /\ pc = "ready"
    /\ i \in 1..Len(iters)
    /\ LET it == iters[i]
       IN  IF exhausted(it)
           THEN iters' = [iters EXCEPT ![i].last = "none"]
           ELSE /\ it.current_entry < MaxYield
                /\ iters' = [iters EXCEPT
                        ![i].current_entry = it.current_entry + 1,
                        ![i].cursor = next_cursor(it),
                        ![i].yielded = Append(it.yielded, it.cursor),
                        ![i].last = "some"]
    /\ UNCHANGED << input, call, pc, start, memory_map, cursor, tagStarts, scanReads,
                    iterReads >>

(***************************************************************************)
(* MemoryArea: the view at address p, fields in declaration order.         *)
(***************************************************************************)
base(p) == read_u64(p).value

\* The length taken from the offset of the type field.
size_at_kind(p) == read_u64(p + 16).value

size(p) == read_u64(p + 8).value

kind_field(p) == read_u32(p + 16).value

\* The classification with every non-zero type usable.
kind_nonzero(p) == IF kind_field(p) # 0 THEN "Usable" ELSE "Unusable"

kind(p) == IF kind_field(p) = 1 THEN "Usable" ELSE "Unusable"

(***************************************************************************)
(* Initial states: the images, where they are placed, and the build.       *)
(***************************************************************************)
\* No call has been made on a reader of its own.
NoCall == [op |-> "none", arg |-> 0, before |-> 0, value |-> 0]

\* A tag that is skipped, a memory-map tag, a terminator.
Symbols == {"O", "M", "T"}

Shapes == UNION {[1..n -> Symbols] : n \in 0..MaxTags}

\* Declared lengths of the skipped tags: no body, and a body that needs padding.
OtherLens == {8, 13}

\* Declared lengths below the 8 bytes of the tag header.
ShortLens == {0, 4}

\* Declared entry sizes: the record width, and a wider stride.
EntrySizes == {24, 32}

\* Where in the pool the entries of the first memory-map tag start.
Rotations == {1, 3}

Starts == {16, 20}

Ambients == {-1, 0, 1}

Has(shape, sym) == \E i \in 1..Len(shape) : shape[i] = sym

\* The i-th tag of an image: memory-map tags at different places of one
\* image hold different entries of the pool.
TagOf(sym, i, olen, esize, n, k) ==
    CASE sym = "O" -> OtherTag(olen)
      [] sym = "M" -> MmapTag(esize, EntryList(n, k + i - 1))
      [] sym = "T" -> EndTag

\* The choices an image is built from: its shape, the length of its
\* skipped tags, and the stride, number and first entry of its memory map
\* (the wider stride is taken with the first entries of the pool).
Choices ==
    {c \in Shapes \X OtherLens \X EntrySizes \X (0..MaxEntries) \X Rotations :
        /\ Has(c[1], "O") \/ c[2] = 8
        /\ Has(c[1], "M") \/ (c[3] = 24 /\ c[4] = 0)
        /\ c[4] > 0 \/ c[5] = 1
        /\ c[3] = 24 \/ c[5] = 1}

\* Tag lists with a tag that declares a length below 8: before the
\* terminator, before a memory map, and after a longer tag.
ShortTagLists ==
    UNION {{<< OtherTag(len), EndTag >>,
            << OtherTag(len), MmapTag(24, EntryList(1, 1)), EndTag >>,
            << OtherTag(13), OtherTag(len), EndTag >>} : len \in ShortLens}

\* The tag lists of the images: the built ones, the worked example with
\* its fields as stated, without and with a terminator, the memory maps
\* of entry size 0 and of entries that do not fill the tag, and the lists
\* with a length below 8.
TagLists ==
    {[i \in 1..Len(c[1]) |-> TagOf(c[1][i], i, c[2], c[3], c[4], c[5])] : c \in Choices}
        \cup {<< StatedExampleTag >>, << StatedExampleTag, EndTag >>}
        \cup {<< ZeroStrideTag, EndTag >>, << SlackTag, EndTag >>}
        \cup ShortTagLists

Init ==
    /\ tags \in TagLists
    /\ image = ImageBytes(tags)
    /\ start \in Starts
    /\ ambient \in Ambients
    /\ overflowChecks \in BOOLEAN
    /\ pc = "init"
    /\ memory_map = 0
    /\ cursor = 0
    /\ tagStarts = << >>
    /\ scanReads = {}
    /\ iters = << >>
    /\ iterReads = {}
    /\ call = NoCall

Next ==
    \/ Multiboot_new
    \/ parse
    \/ memory_areas
    \/ \E i \in IterIds : next(i)

Spec == Init /\ [][Next]_vars

\* The scan alone: Multiboot::new runs to its end without being suspended.
ScanNext == Multiboot_new \/ parse

ScanSpec == Init /\ [][ScanNext]_vars /\ WF_vars(ScanNext)

(***************************************************************************)
(* A ByteReader on its own: ByteReader::new at any address of an image,    *)
(* then its methods in any order.  `cursor` is the cursor of the reader    *)
(* and `call` the method called last, its argument, the cursor before the  *)
(* call and the value returned.                                            *)
(***************************************************************************)
\* Largest amount skipped in one call.
MaxSkip == 4

\* The alignments asked for.
Powers == {1, 2, 4, 8, 16}

\* The image the reader is placed in: a memory map of two entries at
\* stride 32, a tag with a body of 5 bytes and 3 of padding, a terminator.
ReaderTags == << MmapTag(32, EntryList(2, 1)), OtherTag(13), EndTag >>

ReaderInit ==
    /\ tags = ReaderTags
    /\ image = ImageBytes(tags)
    /\ start \in Starts
    /\ ambient \in Ambients
    /\ overflowChecks = FALSE
    /\ pc = "reader"
    /\ memory_map = 0
    /\ cursor \in start..(start + Len(image))
    /\ tagStarts = << >>
    /\ scanReads = {}
    /\ iters = << >>
    /\ iterReads = {}
    /\ call = NoCall

ByteReader_skip ==
    /\ pc = "reader"
    /\ \E amount \in 0..MaxSkip :
        /\ skip(cursor, amount) <= ImageEnd + Slack
        /\ cursor' = skip(cursor, amount)
        /\ call' = [op |-> "skip", arg |-> amount, before |-> cursor, value |-> 0]
    /\ UNCHANGED << input, pc, memory_map, tagStarts, scanReads, iters, iterReads >>

ByteReader_align ==
    /\ pc = "reader"
    /\ \E a \in Powers :
        /\ cursor' = align(cursor, a)
        /\ call' = [op |-> "align", arg |-> a, before |-> cursor, value |-> 0]
    /\ UNCHANGED << input, pc, memory_map, tagStarts, scanReads, iters, iterReads >>

\* A read of memory that is not mapped is a page fault.
ByteReader_read_u8 ==
    /\ pc = "reader"
    /\ IF Readable(cursor, 1)
       THEN /\ cursor' = read_u8(cursor).cursor
            /\ call' = [op |-> "read_u8", arg |-> 0, before |-> cursor,
                        value |-> read_u8(cursor).value]
            /\ UNCHANGED pc
       ELSE /\ pc' = "fault"
            /\ UNCHANGED << cursor, call >>
    /\ UNCHANGED << input, memory_map, tagStarts, scanReads, iters, iterReads >>

\* (The reads are made where the value fits a 32-bit signed integer.)
ByteReader_read_u32 ==
    /\ pc = "reader"
    /\ IF Readable(cursor, 4)
       THEN /\ ByteAt(cursor + 3) < 128
            /\ cursor' = read_u32(cursor).cursor
            /\ call' = [op |-> "read_u32", arg |-> 0, before |-> cursor,
                        value |-> read_u32(cursor).value]
            /\ UNCHANGED pc
       ELSE /\ pc' = "fault"
            /\ UNCHANGED << cursor, call >>
    /\ UNCHANGED << input, memory_map, tagStarts, scanReads, iters, iterReads >>

ByteReader_read_u64 ==
    /\ pc = "reader"
    /\ IF Readable(cursor, 8)
       THEN /\ ByteAt(cursor + 3) < 128
            /\ \A i \in 4..7 : ByteAt(cursor + i) = 0
            /\ cursor' = read_u64(cursor).cursor
            /\ call' = [op |-> "read_u64", arg |-> 0, before |-> cursor,
                        value |-> read_u64(cursor).value]
            /\ UNCHANGED pc
       ELSE /\ pc' = "fault"
            /\ UNCHANGED << cursor, call >>
    /\ UNCHANGED << input, memory_map, tagStarts, scanReads, iters, iterReads >>

ReaderNext ==
    \/ ByteReader_skip
    \/ ByteReader_align
    \/ ByteReader_read_u8
    \/ ByteReader_read_u32
    \/ ByteReader_read_u64

ReaderSpec == ReaderInit /\ [][ReaderNext]_vars

(***************************************************************************)
(* Vocabulary of the properties.                                           *)
(***************************************************************************)
\* Every tag up to the first terminator declares a length that includes its
\* 8 header bytes.
LengthsCoverHeaders == \A i \in 1..Covered(tags) : tags[i].length >= 8

\* The image has a terminator, its tags declare lengths of 8 and more, and
\* it sits on an 8-byte boundary, as the boot protocol hands it over.
\* (Every tag of an image is padded to 8 bytes, and the declared total size
\* covers the header through the first terminator.)
WellFormed == FirstEnd(tags) # 0 /\ LengthsCoverHeaders /\ start % 8 = 0

\* Address of the i-th tag of the image.
TagAddr(i) == start + 8 + SumUp8(tags, i - 1)

\* The total size the header of the image declares.
TotalSize == read_u32(start).value

InStructure(a) == a >= start /\ a < start + TotalSize

\* Indices of the memory-map tags before the first terminator.
MmapBefore == {i \in 1..Covered(tags) : tags[i].type = 6}

\* The last memory-map tag before the first terminator (0: there is none).
LastMmap == IF MmapBefore = {} THEN 0 ELSE CHOOSE i \in MmapBefore : \A j \in MmapBefore : j <= i

\* The declared length of a memory-map tag is its 16 header bytes plus its
\* entries at the declared stride.
Packed(tag) == tag.length = 16 + tag.esize * Len(tag.entries)

IsPrefix(s, t) == Len(s) <= Len(t) /\ \A i \in 1..Len(s) : s[i] = t[i]

Alive == pc \notin {"fault", "panic"}

\* The view at p read through the three accessors.
Seen(p) == [base |-> base(p), length |-> size(p), usable |-> kind(p) = "Usable"]

(***************************************************************************)
(* C1  Absence case.                                                       *)
(***************************************************************************)
\* C1 (as claimed): for a well-formed structure with a terminator and no
\* type-6 tag, the recorded memory-map address stays unset, memory_areas()
\* neither faults nor reads a byte outside the structure, and the iterator
\* yields nothing.
C1_AbsenceIsEmptyWithoutFault ==
    (WellFormed /\ \A i \in 1..Len(tags) : tags[i].type # 6) =>
        /\ Alive
        /\ pc = "ready" => memory_map = 0
        /\ \A a \in iterReads : InStructure(a)
        /\ \A i \in 1..Len(iters) : iters[i].yielded = << >>

(***************************************************************************)
(* C2  Worked example.                                                     *)
(***************************************************************************)
\* The memory-map tag that holds the entry of the example whole: type 6,
\* length 16 + 24 = 40, entry_size 24, one entry base 0x100000, length
\* 0x1000, type 1, reserved 0.
ExampleTag ==
    MmapTag(24, << [base |-> 1048576, length |-> 4096, type |-> 1] >>)

\* What the example expects of every iterator: the one record, then None.
ExampleOutcome ==
    /\ Alive
    /\ pc = "ready" => memory_map = start + 8
    /\ \A i \in 1..Len(iters) :
        LET it == iters[i]
        IN  /\ Len(it.yielded) <= 1
            /\ it.last = "none" => Len(it.yielded) = 1
            /\ Len(it.yielded) = 1 =>
                  /\ Seen(it.yielded[1]) =
                        [base |-> 1048576, length |-> 4096, usable |-> TRUE]
                  /\ it.current_entry >= it.entry_count

\* C2 (as claimed): the structure of total_size 40 that holds the example
\* tag and nothing else yields exactly that one record, then no item.
C2_ExampleAsStated ==
    (start % 8 = 0 /\ tags = << StatedExampleTag >>) =>
        (TotalSize = 40 /\ ExampleOutcome)

\* C2 (amended): the structure of total_size 56 that holds the example tag
\* with length 40 followed by a terminator yields exactly that one record,
\* then no item.
C2_ExampleWithTerminator ==
    (start % 8 = 0 /\ tags = << ExampleTag, EndTag >>) =>
        (TotalSize = 56 /\ tags[1].length = 40 /\ ExampleOutcome)

C2_Witness ==
    /\ start % 8 = 0
    /\ tags = << ExampleTag, EndTag >>
    /\ Len(iters) >= 1
    /\ iters[1].last = "none"
    /\ Len(iters[1].yielded) = 1

(***************************************************************************)
(* C3  Round trip.                                                         *)
(***************************************************************************)
\* The structures of the round trip: other tags, one type-6 tag, other
\* tags, and the terminator last.
RoundTripImage ==
    /\ WellFormed
    /\ FirstEnd(tags) = Len(tags)
    /\ Cardinality(MmapBefore) = 1
    /\ Packed(tags[LastMmap])

\* C3: for a structure built from N entries, every iterator yields the
\* entries in order, each a view of the place the entry was packed at with
\* base, length and raw type preserved, and ends after exactly N records.
C3_RoundTrip ==
    RoundTripImage =>
        /\ Alive
        /\ \A i \in 1..Len(iters) :
            LET it      == iters[i]
                entries == tags[LastMmap].entries
            IN  /\ Len(it.yielded) <= Len(entries)
                /\ it.last = "none" => Len(it.yielded) = Len(entries)
                /\ \A r \in 1..Len(it.yielded) :
                      /\ it.yielded[r] =
                            TagAddr(LastMmap) + 16 + (r - 1) * tags[LastMmap].esize
                      /\ base(it.yielded[r]) = entries[r].base
                      /\ size(it.yielded[r]) = entries[r].length
                      /\ kind_field(it.yielded[r]) = entries[r].type

C3_Witness ==
    /\ RoundTripImage
    /\ tags[1].type = 1
    /\ Len(iters) >= 1
    /\ iters[1].last = "none"
    /\ Len(iters[1].yielded) = 2

(***************************************************************************)
(* C4  Entry-count derivation.                                             *)
(***************************************************************************)
\* C4: a memory-map tag of declared size 16 + entry_size * N, entry_size >=
\* 24, gives an iterator of entry_count N that returns exactly N items
\* before it first returns none, also for entry_size > 24.
C4_EntryCount ==
    (WellFormed /\ LastMmap # 0 /\ Packed(tags[LastMmap])) =>
        \A i \in 1..Len(iters) :
            LET it == iters[i]
                N  == Len(tags[LastMmap].entries)
            IN  /\ it.entry_size = tags[LastMmap].esize
                /\ it.entry_size >= 24
                /\ it.entry_count = N
                /\ it.current_entry = Len(it.yielded)
                /\ it.last = "none" => it.current_entry = N
                /\ it.last = "some" => it.current_entry \in 1..N
                /\ it.last = "new" => it.current_entry = 0

C4_Witness ==
    /\ WellFormed
    /\ LastMmap # 0
    /\ Packed(tags[LastMmap])
    /\ Len(iters) >= 1
    /\ iters[1].entry_size = 32
    /\ iters[1].last = "none"
    /\ iters[1].current_entry = 2

(***************************************************************************)
(* C5  Scan termination within bounds.                                     *)
(***************************************************************************)
\* C5: for a well-formed structure the loop of parse eventually exits, and
\* every byte the scan reads lies in [start, start + total_size).
C5_ScanTerminatesInBounds ==
    /\ WellFormed => <>(pc = "ready")
    /\ [](WellFormed => \A a \in scanReads : InStructure(a))

C5_Witness ==
    /\ WellFormed
    /\ pc = "ready"
    /\ Len(tagStarts) = 3
    /\ start + TotalSize - 1 \in scanReads

(***************************************************************************)
(* C6  Alignment of the scan.                                              *)
(***************************************************************************)
\* C6: in every round of the loop after the first, the cursor is a multiple
\* of 8 where the tag's type is about to be read, whatever length was
\* skipped.
C6_TagHeadersAligned ==
    /\ \A k \in 2..Len(tagStarts) : tagStarts[k] % 8 = 0
    /\ (pc = "scan" /\ Len(tagStarts) >= 1) => cursor % 8 = 0

C6_Witness ==
    /\ pc = "scan"
    /\ Len(tagStarts) = 1
    /\ read_u32(tagStarts[1] + 4).value = 13
    /\ cursor = tagStarts[1] + 16

(***************************************************************************)
(* C7  Classification.                                                     *)
(***************************************************************************)
\* C7: kind() of a record is Usable exactly when its raw type field is 1,
\* and Unusable otherwise; the records of entries of type 0, 2 and 3 are
\* Unusable.
C7_Classification ==
    \A i \in 1..Len(iters) : \A r \in 1..Len(iters[i].yielded) :
        LET p == iters[i].yielded[r]
        IN  Readable(p, 24) =>
              /\ kind(p) = "Usable" <=> kind_field(p) = 1
              /\ kind(p) = "Unusable" <=> kind_field(p) # 1
              /\ (WellFormed /\ LastMmap # 0 /\ Packed(tags[LastMmap])) =>
                    LET type == tags[LastMmap].entries[r].type
                    IN  /\ type = 1 => kind(p) = "Usable"
                        /\ type \in {0, 2, 3} => kind(p) = "Unusable"

C7_Witness ==
    /\ WellFormed
    /\ Len(iters) >= 1
    /\ Len(iters[1].yielded) = 2
    /\ kind_field(iters[1].yielded[1]) = 3
    /\ kind_field(iters[1].yielded[2]) = 0
    /\ kind(iters[1].yielded[1]) = "Unusable"

(***************************************************************************)
(* C8  Restartable per call.                                               *)
(***************************************************************************)
\* C8: every iterator of one handle starts at the first entry, and any two
\* of them yield the same sequence of records, however their next() calls
\* are interleaved and however far the earlier one has been advanced.
C8_Restartable ==
    /\ \A i \in 1..Len(iters) :
        /\ iters[i].cursor = memory_map + 16 + iters[i].current_entry * iters[i].entry_size
        /\ iters[i].last = "new" =>
              (iters[i].current_entry = 0 /\ iters[i].yielded = << >>)
    /\ \A i, j \in 1..Len(iters) :
        /\ iters[i].entry_count = iters[j].entry_count
        /\ IsPrefix(iters[i].yielded, iters[j].yielded)
              \/ IsPrefix(iters[j].yielded, iters[i].yielded)
        /\ (iters[i].last = "none" /\ iters[j].last = "none") =>
              iters[i].yielded = iters[j].yielded

C8_Witness ==
    /\ WellFormed
    /\ Len(iters) = 2
    /\ iters[1].last = "none"
    /\ Len(iters[1].yielded) = 2
    /\ iters[2].last = "some"
    /\ iters[2].yielded = << iters[1].yielded[1] >>

(***************************************************************************)
(* C9  Tag positions.                                                      *)
(***************************************************************************)
\* The k-th tag header is read at offset 8 + the padded lengths of the tags
\* before it.
TagsReadAtOffsets ==
    \A k \in 1..Len(tagStarts) : k <= Len(tags) /\ tagStarts[k] = TagAddr(k)

C10_StopsAtFirstEnd ==
    /\ \A k \in 1..Len(tagStarts) :
        (Readable(tagStarts[k], 8) /\ read_u32(tagStarts[k]).value = 0) =>
            /\ k = Len(tagStarts)
            /\ pc # "scan"
            /\ \A a \in scanReads : a < tagStarts[k] + 8
            /\ memory_map < tagStarts[k]
    /\ WellFormed =>
        /\ Len(tagStarts) <= FirstEnd(tags)
        /\ \A j \in (FirstEnd(tags) + 1)..Len(tags) : memory_map # TagAddr(j)

C10_Witness ==
    /\ WellFormed
    /\ pc = "ready"
    /\ FirstEnd(tags) = 2
    /\ Len(tags) = 3
    /\ tags[1].type = 6
    /\ tags[3].type = 6
    /\ memory_map = TagAddr(1)
    /\ Len(iters) = 1

(***************************************************************************)
(* C11  Unknown tags are walked over.                                      *)
(***************************************************************************)
\* The header parse reads in its next round: type code and declared length.
HeaderKind == read_u32(cursor).value

HeaderSize == read_u32(cursor + 4).value

\* A round of the loop over a readable header of a type that is neither the
\* terminator nor the memory map.
UnknownTagRound == pc = "scan" /\ Readable(cursor, 8) /\ HeaderKind \notin {0, 6}

\* C11: a round of the scan over a tag whose type code is neither 0 nor 6
\* leaves the recorded memory-map address and the start address unchanged
\* (and the iterators and the structure with them); for a tag whose length
\* includes its 8 header bytes only the cursor changes, to the next 8-byte
\* boundary at or after the end of the tag, and the loop goes on.
C11_UnknownTagsSkipped ==
    [][UnknownTagRound =>
          /\ memory_map' = memory_map
          /\ start' = start
          /\ iters' = iters
          /\ input' = input
          /\ HeaderSize >= 8 =>
                /\ pc' = "scan"
                /\ cursor' > cursor
                /\ cursor' % 8 = 0
                /\ cursor' >= cursor + HeaderSize
                /\ cursor' < cursor + HeaderSize + 8]_vars

\* A memory-map tag was recorded, then a tag of type 1 and length 13 was
\* walked over: the record is kept and the scan is at the next tag.
C11_Witness ==
    /\ WellFormed
    /\ pc = "scan"
    /\ Len(tagStarts) = 2
    /\ read_u32(tagStarts[1]).value = 6
    /\ read_u32(tagStarts[2]).value = 1
    /\ read_u32(tagStarts[2] + 4).value = 13
    /\ memory_map = tagStarts[1]
    /\ cursor = tagStarts[2] + 16

(***************************************************************************)
(* C12  Stride of the iterator.                                            *)
(***************************************************************************)
\* C12: every iterator over the tag recorded at T = memory_map has its
\* cursor at T + 16 + current_entry * entry_size with current_entry <=
\* entry_count, and its k-th record (k from 0) is the view at
\* T + 16 + k * entry_size: consecutive records are the declared entry_size
\* apart, whatever the width of MemoryArea.
C12_StrideInvariant ==
    \A i \in 1..Len(iters) :
        LET it == iters[i]
        IN  /\ it.cursor = memory_map + 16 + it.current_entry * it.entry_size
            /\ it.current_entry <= it.entry_count
            /\ Len(it.yielded) = it.current_entry
            /\ \A r \in 1..Len(it.yielded) :
                  /\ it.yielded[r] = memory_map + 16 + (r - 1) * it.entry_size
                  /\ r > 1 => it.yielded[r] - it.yielded[r - 1] = it.entry_size

\* An iterator of stride 32 after its second record.
C12_Witness ==
    /\ WellFormed
    /\ LastMmap # 0
    /\ Len(iters) >= 1
    /\ iters[1].entry_size = 32
    /\ iters[1].entry_count = 2
    /\ iters[1].current_entry = 2
    /\ iters[1].last = "some"
    /\ iters[1].yielded[2] = TagAddr(LastMmap) + 48
    /\ iters[1].cursor = TagAddr(LastMmap) + 80

(***************************************************************************)
(* C13  Without a terminator the scan does not stop.                       *)
(***************************************************************************)
\* A structure on an 8-byte boundary whose tags declare lengths of 8 and
\* more, none of them of type 0.
NoTerminator == FirstEnd(tags) = 0 /\ LengthsCoverHeaders /\ start % 8 = 0

\* The scan has read at an address at or after start + total_size.
ReadBeyond == \E a \in scanReads : a >= start + TotalSize

\* C13: the loop of parse is left for the caller only by a round that read
\* type code 0; on a structure without a type-0 tag the scan comes to read
\* a tag header at or after start + total_size, and at no point before that
\* has it stopped: what ends it lies outside the structure (a zero word
\* found there, or memory that cannot be read).
C13_NoTerminatorNoStop ==
    /\ [][(pc = "scan" /\ pc' = "ready") => (Readable(cursor, 8) /\ HeaderKind = 0)]_vars
    /\ NoTerminator => <>ReadBeyond
    /\ []((NoTerminator /\ pc \notin {"init", "scan"}) => ReadBeyond)

\* Two tags and no terminator: the scan has read a third header right at
\* start + total_size, taken it for a tag, and is still going.
C13_Witness ==
    /\ NoTerminator
    /\ Len(tags) = 2
    /\ pc = "scan"
    /\ Len(tagStarts) = 3
    /\ tagStarts[3] = start + TotalSize
    /\ cursor > start + TotalSize + 8

(***************************************************************************)
(* C14  A declared length below 8.                                         *)
(***************************************************************************)
\* A round of the loop over a readable header that declares a length 0..7.
ShortTagRound == pc = "scan" /\ Readable(cursor, 8) /\ HeaderSize \in 0..7

\* C14: for a tag declaring a length in 0..7 the skip amount is taken with
\* no check and is not a value in 0..length: the subtraction underflows.  A
\* build with overflow checks panics there, before the skip; otherwise the
\* amount wraps, the skip moves the cursor back below the end of the 8
\* header bytes just read (to header start + length), and after the
\* alignment the cursor is less than 8 bytes past the header start + length:
\* for length 0 on an 8-byte boundary it is back on the same header.
C14_ShortLengthUnderflows ==
    [][ShortTagRound =>
          /\ body_size(HeaderSize) < 0
          /\ body_size(HeaderSize) \notin 0..HeaderSize
          /\ IF overflowChecks
             THEN pc' = "panic" /\ cursor' = cursor + 8
             ELSE /\ pc' = IF HeaderKind = 0 THEN "ready" ELSE "scan"
                  /\ skip(cursor + 8, body_size(HeaderSize)) = cursor + HeaderSize
                  /\ skip(cursor + 8, body_size(HeaderSize)) < cursor + 8
                  /\ cursor' % 8 = 0
                  /\ cursor' >= cursor + HeaderSize
                  /\ cursor' < cursor + HeaderSize + 8
                  /\ (HeaderSize = 0 /\ cursor % 8 = 0) => cursor' = cursor]_vars

\* A build that wraps has read a tag of type 1 and length 0 and, the skip
\* having taken the cursor back, read the same header a second time.
C14_Witness ==
    /\ ~overflowChecks
    /\ start % 8 = 0
    /\ pc = "scan"
    /\ Len(tagStarts) = 2
    /\ tagStarts[2] = tagStarts[1]
    /\ read_u32(tagStarts[1]).value = 1
    /\ read_u32(tagStarts[1] + 4).value = 0
    /\ cursor = tagStarts[1]

(***************************************************************************)
(* C15  An entry size of zero.                                             *)
(***************************************************************************)
\* The scan recorded a tag whose third header field, the entry size, is 0.
ZeroStrideLocated ==
    /\ pc \in {"ready", "panic"}
    /\ memory_map # 0
    /\ Readable(memory_map, 16)
    /\ read_u32(memory_map + 8).value = 0

\* C15: when the located memory-map tag declares entry_size = 0, a call of
\* memory_areas() ends in the panic of the division: the caller holds no
\* iterator, so no record is yielded, and nothing is returned to it.
C15_ZeroStrideFaults ==
    ZeroStrideLocated =>
        /\ iters = << >>
        /\ iterReads # {} => pc = "panic"

\* memory_areas() was called on the structure whose memory map declares
\* entry_size 0, read the 16 header bytes of the tag, and panicked.
C15_Witness ==
    /\ tags = << ZeroStrideTag, EndTag >>
    /\ start % 8 = 0
    /\ memory_map = start + 8
    /\ iterReads = memory_map..(memory_map + 15)
    /\ pc = "panic"
    /\ iters = << >>

(***************************************************************************)
(* C16  align.                                                             *)
(***************************************************************************)
\* C16: after align(a), a a power of two, the cursor is the smallest
\* multiple of a that is >= the cursor before the call, which is
\* (before + a - 1) & ~(a - 1): it has not moved backward, has moved forward
\* by at most a - 1, and has not moved when it was a multiple of a.
C16_AlignNextMultiple ==
    call.op = "align" =>
        LET a      == call.arg
            before == call.before
        IN  /\ cursor % a = 0
            /\ cursor >= before
            /\ \A m \in before..cursor : m % a = 0 => m = cursor
            /\ cursor = AndNot(before + a - 1, a - 1)
            /\ cursor - before <= a - 1
            /\ before % a = 0 => cursor = before

\* align(8) moved a cursor 5 past a boundary forward by 3.
C16_Witness ==
    /\ call.op = "align"
    /\ call.arg = 8
    /\ call.before % 8 = 5
    /\ cursor = call.before + 3

(***************************************************************************)
(* C17  Fixed-width reads.                                                 *)
(***************************************************************************)
RECURSIVE LittleEndian(_, _)
\* The n bytes at a..a+n-1 as a little-endian number: the byte at a + i is
\* worth 2^(8 i).
LittleEndian(a, n) == IF n = 0 THEN 0 ELSE ByteAt(a) + 256 * LittleEndian(a + 1, n - 1)

\* C17: read_u8 returns the byte at the cursor and advances it by 1;
\* read_u32 returns b0 + 2^8 b1 + 2^16 b2 + 2^24 b3 of the four bytes at
\* the cursor and advances it by 4; read_u64 returns the sum of
\* b_i * 2^(8 i) of the eight bytes at the cursor and advances it by 8.
C17_FixedWidthReads ==
    /\ call.op = "read_u8" =>
          /\ call.value = ByteAt(call.before)
          /\ cursor = call.before + 1
    /\ call.op = "read_u32" =>
          /\ call.value = ByteAt(call.before) + 256 * ByteAt(call.before + 1)
                            + 65536 * ByteAt(call.before + 2)
                            + 16777216 * ByteAt(call.before + 3)
          /\ cursor = call.before + 4
    /\ call.op = "read_u64" =>
          /\ call.value = LittleEndian(call.before, 8)
          /\ cursor = call.before + 8

\* read_u32 over the bytes 5, 5, 3, 3 (the end of a body and its padding),
\* and read_u64 over the base address 0x100000 of an entry.
C17_Witness ==
    \/ /\ call.op = "read_u32"
       /\ ByteAt(call.before + 1) = 5
       /\ ByteAt(call.before + 2) = 3
       /\ call.value = 5 + 5 * 256 + 3 * 65536 + 3 * 16777216
       /\ cursor = call.before + 4
    \/ /\ call.op = "read_u64"
       /\ call.value = 1048576
       /\ cursor = call.before + 8

(***************************************************************************)
(* C18  The recorded tag address.                                          *)
(***************************************************************************)
\* The last memory-map tag among the first k tags (0: there is none).
LastMmapAmong(k) ==
    LET among == {i \in 1..k : tags[i].type = 6}
    IN  IF among = {} THEN 0 ELSE CHOOSE i \in among : \A j \in among : j <= i

\* The address recorded for the i-th tag: where its type field is; null
\* for no tag.
RecordedFor(i) == IF i = 0 THEN 0 ELSE TagAddr(i)

\* C18: on a well-formed structure the recorded memory-map address is, at
\* every round of the scan, the address of the type field of the last
\* type-6 tag read so far, and null while there is none: a later type-6 tag
\* overwrites an earlier one, and after Multiboot::new the address is that
\* of the last type-6 tag before the terminator.
C18_RecordedTagAddress ==
    (WellFormed /\ pc # "init") =>
        /\ memory_map = RecordedFor(LastMmapAmong(Len(tagStarts)))
        /\ pc # "scan" =>
              /\ memory_map = RecordedFor(LastMmap)
              /\ LastMmap # 0 =>
                    /\ read_u32(memory_map).value = 6
                    /\ read_u32(memory_map + 4).value = tags[LastMmap].length
              /\ LastMmap = 0 => memory_map = 0

\* Two memory-map tags and the terminator: the address of the second is
\* the one kept.
C18_Witness ==
    /\ WellFormed
    /\ pc = "ready"
    /\ Len(tags) = 3
    /\ tags[1].type = 6
    /\ tags[2].type = 6
    /\ Len(tags[1].entries) = 2
    /\ memory_map = TagAddr(2)
    /\ memory_map # TagAddr(1)
    /\ Len(iters) = 1

(***************************************************************************)
(* C19  An exhausted iterator stays exhausted.                             *)
(***************************************************************************)
\* C19: once next() has returned None on an iterator, no call changes it:
\* every later next() on it returns None again and its cursor,
\* current_entry, entry_count and entry_size (and the records it has
\* yielded) stay as they are; and no iterator has yielded more than
\* entry_count records.
C19_ExhaustedStays ==
    /\ [][\A i \in 1..Len(iters) :
            iters[i].last = "none" =>
                /\ i <= Len(iters')
                /\ iters'[i] = iters[i]]_vars
    /\ [](\A i \in 1..Len(iters) :
            /\ Len(iters[i].yielded) <= iters[i].entry_count
            /\ iters[i].last = "none" => exhausted(iters[i]))

\* The first iterator gave its two records and None; the second was then
\* made and run to its end as well, the first still as it was.
C19_Witness ==
    /\ WellFormed
    /\ Len(iters) = 2
    /\ iters[1].last = "none"
    /\ iters[2].last = "none"
    /\ iters[1].entry_count = 2
    /\ Len(iters[1].yielded) = 2
    /\ iters[1] = iters[2]

(***************************************************************************)
(* C20  Record views stay inside the tag.                                  *)
(***************************************************************************)
\* C20: for the tag at T = memory_map with declared size S >= 16 and an
\* iterator of entry_size >= 24, the 24 bytes [addr, addr + 24) of every
\* record yielded lie in [T + 16, T + S), also when S - 16 is not a
\* multiple of entry_size.
C20_ViewsInsideTag ==
    \A i \in 1..Len(iters) :
        LET it == iters[i]
            T  == memory_map
            S  == read_u32(memory_map + 4).value
        IN  (S >= 16 /\ it.entry_size >= 24) =>
                \A r \in 1..Len(it.yielded) :
                    /\ it.yielded[r] >= T + 16
                    /\ it.yielded[r] + 24 <= T + S

\* The tag of size 48 and entry_size 24: 32 bytes of entries, one record
\* yielded, then None; the 8 bytes left over are not made a view of.
C20_Witness ==
    /\ tags = << SlackTag, EndTag >>
    /\ start % 8 = 0
    /\ Len(iters) >= 1
    /\ (read_u32(memory_map + 4).value - 16) % iters[1].entry_size = 8
    /\ iters[1].last = "none"
    /\ iters[1].entry_count = 1
    /\ iters[1].yielded = << memory_map + 16 >>

====
